---- MODULE Spec2Model ----
(***************************************************************************)
(* Model of google-news-resolver (src/server.js, gated CommonJS variant):  *)
(* the single-slot concurrency gate, the /resolve handler, the retry and   *)
(* backoff controller and the per-attempt browser session of resolveOnce.  *)
(*                                                                         *)
(* Requests run on one event loop.  One action is one macrotask: a         *)
(* callback (request arrival, timer expiry, settlement of a browser        *)
(* promise) together with all the synchronous code and microtasks that     *)
(* follow it, up to the next pending timer or browser operation.           *)
(*                                                                         *)
(* Strings are sequences of tokens; replace/includes/startsWith work on    *)
(* contiguous token runs.  JS objects are functions on their key sets, so  *)
(* that object spread is a real override.                                  *)
(***************************************************************************)
EXTENDS Integers, Sequences, FiniteSets, TLC

\* ---------------------------------------------------------------- bounds
NumReqs == 2

Reqs == 1..NumReqs

\* ------------------------------------------------------ program constants
maxAttempts == 4
baseDelayMs == 800
jitterCeil == 400
pollMs == 250

\* ------------------------------------------------------------ JS values
NullUrl == <<"<null>">>
EmptyStr == <<>>

\* JS truthiness of a string-or-null value
Truthy(u) == u # NullUrl /\ u # EmptyStr

RssUrl == <<"https://", "news.google.com", "/rss", "/articles/", "ABC?oc=5">>
ArticleUrl == <<"https://", "news.google.com", "/articles/", "ABC?oc=5">>
PublisherUrl == <<"https://", "example.com", "/story">>

\* request bodies: req.body?.google_news_url
Bodies ==
  { [type |-> "undefined", val |-> EmptyStr],
    [type |-> "string", val |-> EmptyStr],
    [type |-> "number", val |-> <<"42">>],
    [type |-> "string", val |-> RssUrl],
    [type |-> "string", val |-> ArticleUrl] }

\* !google_news_url || typeof google_news_url !== "string"
FalsyBody(b) == b.type = "undefined" \/ (b.type = "string" /\ b.val = EmptyStr)

\* mutant: the typeof test is dropped
InvalidBody_m(b) == FalsyBody(b)

InvalidBody(b) == FalsyBody(b) \/ b.type # "string"

\* ------------------------------------------------------ string helpers
IsAt(s, pat, i) ==
  /\ i + Len(pat) - 1 <= Len(s)
  /\ SubSeq(s, i, i + Len(pat) - 1) = pat

Includes(s, pat) == \E i \in 1..(Len(s) + 1) : IsAt(s, pat, i)

IndexOf(s, pat) ==
  IF Includes(s, pat)
  THEN CHOOSE i \in 1..(Len(s) + 1) :
         IsAt(s, pat, i) /\ \A j \in 1..(i - 1) : ~IsAt(s, pat, j)
  ELSE 0

\* String.prototype.replace with a string pattern: first occurrence only
ReplaceFirst(s, pat, rep) ==
  LET i == IndexOf(s, pat)
  IN IF i = 0 THEN s
     ELSE SubSeq(s, 1, i - 1) \o rep \o SubSeq(s, i + Len(pat), Len(s))

normalizeGoogleNewsUrl(input) ==
  IF ~Truthy(input) THEN input
  ELSE
    LET u1 == ReplaceFirst(input,
                <<"https://", "news.google.com", "/rss", "/articles/">>,
                <<"https://", "news.google.com", "/articles/">>)
        u2 == ReplaceFirst(u1,
                <<"http://", "news.google.com", "/rss", "/articles/">>,
                <<"https://", "news.google.com", "/articles/">>)
    IN ReplaceFirst(u2, <<"/rss", "/articles/">>, <<"/articles/">>)

\* object spread {...a, ...b}: keys of b override keys of a
Spread(a, b) ==
  [k \in (DOMAIN a) \cup (DOMAIN b) |-> IF k \in DOMAIN b THEN b[k] ELSE a[k]]

StartsWith(s, pat) == IsAt(s, pat, 1)

\* --------------------------------------------------------------- the DOM
\* an anchor element; doms are sequences of anchors in document order
Anchor(href, rel, target, inArticle, inMain) ==
  [href |-> href, rel |-> rel, target |-> target,
   inArticle |-> inArticle, inMain |-> inMain]

AdUrl == <<"https://", "ads.example", "/x">>
AccountsUrl == <<"https://", "accounts.google.com", "/signin">>

Doms ==
  { <<>>,
    << Anchor(ArticleUrl, "", "", FALSE, FALSE),
       Anchor(AccountsUrl, "nofollow", "", FALSE, FALSE) >>,
    << Anchor(AdUrl, "", "", FALSE, TRUE),
       Anchor(ArticleUrl, "nofollow", "", FALSE, FALSE),
       Anchor(PublisherUrl, "nofollow", "_blank", TRUE, FALSE) >> }

\* a[href^="http"]
HrefHttp(a) == StartsWith(a.href, <<"https://">>) \/ StartsWith(a.href, <<"http://">>)

selectors == 1..5

Matches(sel, a) ==
  /\ HrefHttp(a)
  /\ CASE sel = 1 -> a.rel = "nofollow"
       [] sel = 2 -> a.target = "_blank"
       [] sel = 3 -> a.inArticle
       [] sel = 4 -> a.inMain
       [] OTHER -> TRUE

bad(h) ==
  \/ ~Truthy(h)
  \/ Includes(h, <<"news.google.com">>)
  \/ Includes(h, <<"accounts.google.com">>)
  \/ StartsWith(h, <<"javascript:">>)

\* mutant: the filter on bad hrefs is dropped
Links_m(dom, sel) == SelectSeq(dom, LAMBDA a : Matches(sel, a))

\* links of one selector: matches in document order, mapped to href, bad ones dropped
Links(dom, sel) == SelectSeq(dom, LAMBDA a : Matches(sel, a) /\ ~bad(a.href))

\* the function passed to page.evaluate: first link of the first selector that has one
Outbound(dom) ==
  IF \E sel \in selectors : Len(Links(dom, sel)) > 0
  THEN LET sel == CHOOSE t \in selectors :
                    /\ Len(Links(dom, t)) > 0
                    /\ \A u \in selectors : u < t => Len(Links(dom, u)) = 0
       IN Links(dom, sel)[1].href
  ELSE NullUrl

\* ------------------------------------------------------- the environment
Statuses == {"200", "403", "429", "503", "null"}
PageUrls == {PublisherUrl, ArticleUrl, EmptyStr}
Errors == {"Timeout 30000ms exceeded", "Target closed"}
\* samples of Math.floor(Math.random() * 400)
Jitters == {0, jitterCeil - 1}

\* what the clients, the browser and the random source may produce
Env ==
  [bodies |-> Bodies, statuses |-> Statuses, pageUrls |-> PageUrls,
   doms |-> Doms, errors |-> Errors, jitters |-> Jitters, sends |-> {"ok"}]

\* a smaller sample of the same outcomes, one per branch of the code
LeanEnv ==
  [bodies |-> {[type |-> "undefined", val |-> EmptyStr],
               [type |-> "string", val |-> RssUrl]},
   statuses |-> {"200", "429"},
   pageUrls |-> {PublisherUrl, ArticleUrl},
   doms |-> {<<>>, <<Anchor(PublisherUrl, "nofollow", "", FALSE, FALSE)>>},
   errors |-> {"Timeout 30000ms exceeded"},
   jitters |-> {0},
   sends |-> {"ok"}]

\* the smaller sample, and a res.json that may throw
SendEnv == [LeanEnv EXCEPT !.sends = {"ok", "throws"}]

SendError == "res.json threw"

\* ------------------------------------------------------------ the state
VARIABLES
  active,      \* the gate counter
  pc,          \* per request: the pending timer or browser operation
  url,         \* per request: google_news_url of the handler
  target,      \* per request: targetUrl of resolveWithRetries
  attempt,     \* per request: loop variable of resolveWithRetries
  calls,       \* per request: number of resolveOnce calls made so far
  timer,       \* per request: duration of the pending timer, 0 when none
  status,      \* per request: status of resolveOnce
  finalUrl,    \* per request: finalUrl of resolveOnce
  ret,         \* per request: completion of the try block awaiting the finally
  browser,     \* per request: the browser of its latest attempt
  context,     \* per request: the context of its latest attempt
  page,        \* per request: the page of its latest attempt
  doc,         \* per request: the document its page shows once it has settled
  respCount,   \* per request: number of responses written
  ev           \* what the last step did: the body that arrived, the response
               \* written, the rejection swallowed, and for a response the
               \* number of resolveOnce calls and the completion of the last one

vars == <<active, pc, url, target, attempt, calls, timer, status, finalUrl,
          ret, browser, context, page, doc, respCount, ev>>

NoResp == [type |-> "none"]
NoInput == [type |-> "none", val |-> EmptyStr]
NoRet == [kind |-> "none"]

Init ==
  /\ active = 0
  /\ pc = [r \in Reqs |-> "idle"]
  /\ url = [r \in Reqs |-> NullUrl]
  /\ target = [r \in Reqs |-> NullUrl]
  /\ attempt = [r \in Reqs |-> 0]
  /\ calls = [r \in Reqs |-> 0]
  /\ timer = [r \in Reqs |-> 0]
  /\ status = [r \in Reqs |-> "null"]
  /\ finalUrl = [r \in Reqs |-> NullUrl]
  /\ ret = [r \in Reqs |-> NoRet]
  /\ browser = [r \in Reqs |-> "none"]
  /\ context = [r \in Reqs |-> "none"]
  /\ page = [r \in Reqs |-> "none"]
  /\ doc = [r \in Reqs |-> <<>>]
  /\ respCount = [r \in Reqs |-> 0]
  /\ ev = [input |-> NoInput, resp |-> NoResp, swallowed |-> "",
            calls |-> 0, last |-> NoRet]

\* ------------------------------------------------------------- the gate
\* mutant: the loop admits a second holder
SlotBusy_m(a) == a >= 2

\* the loop condition of waitForTurn
SlotBusy(a) == a >= 1

\* mutant: the slot is never given back
doneTurn_m(a) == a

doneTurn(a) == IF a - 1 > 0 THEN a - 1 ELSE 0

\* ------------------------------------------------- what a step emits
Emit(resp, sw) ==
  ev' = [input |-> NoInput, resp |-> resp, swallowed |-> sw,
         calls |-> 0, last |-> NoRet]

\* the handler answers after resolveWithRetries returned or threw
EmitAnswer(r, resp, sw) ==
  ev' = [input |-> NoInput, resp |-> resp, swallowed |-> sw,
         calls |-> calls[r], last |-> ret[r]]

\* a request arrives
EmitArrival(b, resp) ==
  ev' = [input |-> b, resp |-> resp, swallowed |-> "",
         calls |-> 0, last |-> NoRet]

Response(r, st, body) == [type |-> "response", req |-> r, status |-> st, body |-> body]

\* the frames of resolveOnce, resolveWithRetries and the handler are gone
ClearLocals(r) ==
  /\ url' = [url EXCEPT ![r] = NullUrl]
  /\ target' = [target EXCEPT ![r] = NullUrl]
  /\ attempt' = [attempt EXCEPT ![r] = 0]
  /\ calls' = [calls EXCEPT ![r] = 0]
  /\ timer' = [timer EXCEPT ![r] = 0]
  /\ status' = [status EXCEPT ![r] = "null"]
  /\ finalUrl' = [finalUrl EXCEPT ![r] = NullUrl]
  /\ ret' = [ret EXCEPT ![r] = NoRet]

\* ------------------------------------------------ the /resolve handler
Body400 ==
  [ok |-> FALSE,
   error |-> "Missing google_news_url (string) in JSON body",
   example |-> [google_news_url |-> "https://news.google.com/rss/articles/CBMi... ?oc=5"]]

\* mutant: 503 counts as blocked too
Blocked_m(result) == result.http_status \in {"429", "503"}

Blocked(result) == result.http_status = "429"

\* res.json({ ok: true, google_news_url, blocked, ...result })
Body200(u, result) ==
  Spread([ok |-> TRUE, google_news_url |-> u, blocked |-> Blocked(result)], result)

Body500(u, e) == [ok |-> FALSE, google_news_url |-> u, error |-> e]

\* the finally block of the handler; its frames are gone afterwards
Finally(r) ==
  /\ active' = doneTurn(active)
  /\ pc' = [pc EXCEPT ![r] = "done"]
  /\ ClearLocals(r)

\* res.json wrote the response
Answer(r, resp, sw) ==
  /\ EmitAnswer(r, resp, sw)
  /\ respCount' = [respCount EXCEPT ![r] = @ + 1]
  /\ Finally(r)

\* mutant: the catch path answers without releasing the slot
Handler500_m(r, e, sw, E) ==
  /\ EmitAnswer(r, Response(r, 500, Body500(url[r], e)), sw)
  /\ respCount' = [respCount EXCEPT ![r] = @ + 1]
  /\ active' = active
  /\ pc' = [pc EXCEPT ![r] = "done"]
  /\ ClearLocals(r)

\* resolveWithRetries threw, or res.json threw in the try block: the catch
\* block answers, the finally releases.  When res.json throws here too, the
\* handler ends without a response.
Handler500(r, e, sw, E) ==
  \E s \in E.sends :
    IF s = "ok"
    THEN Answer(r, Response(r, 500, Body500(url[r], e)), sw)
    ELSE /\ EmitAnswer(r, NoResp, "res.json")
         /\ UNCHANGED respCount
         /\ Finally(r)

\* resolveWithRetries returned: the try block answers, the finally releases.
\* For the bodies built here res.json does not throw (strings, numbers,
\* booleans and null, no header sent before); E.sends = {"ok"} says so, and
\* SendEnv explores the handler with a res.json that throws.
Handler200(r, result, sw, E) ==
  \E s \in E.sends :
    IF s = "ok"
    THEN Answer(r, Response(r, 200, Body200(url[r], result)), sw)
    ELSE Handler500(r, SendError, sw, E)

\* ---------------------------------------------------- resolveWithRetries
\* mutant: a resolved URL does not stop the loop when the status is retryable
Resolved_m(result) ==
  Truthy(result.resolved_url) /\ result.http_status \notin {"429", "503"}

Resolved(result) == Truthy(result.resolved_url)

\* mutant: 403 is retried as well
Retryable_m(result) == result.http_status \in {"429", "503", "403"}

Retryable(result) == result.http_status = "429" \/ result.http_status = "503"

\* mutant: the loop admits one more iteration
BudgetLeft_m(att) == att <= maxAttempts

\* the loop condition, evaluated after attempt++ on continue
BudgetLeft(att) == att + 1 <= maxAttempts

\* mutant: the exponent is the attempt number
baseDelay_m(att) == baseDelayMs * (2 ^ att)

baseDelay(att) == baseDelayMs * (2 ^ (att - 1))

ReturnInLoop(result, att, t) == Spread(result, [attempt |-> att, target_url |-> t])

ReturnAfterLoop(result, t) == Spread(result, [attempt |-> maxAttempts, target_url |-> t])

\* mutant: the slot is given back for the time of the sleep
Backoff_m(r, att, sw, E) ==
  /\ \E j \in E.jitters : timer' = [timer EXCEPT ![r] = baseDelay(att) + j]
  /\ attempt' = [attempt EXCEPT ![r] = att]
  /\ pc' = [pc EXCEPT ![r] = "sleep"]
  /\ status' = [status EXCEPT ![r] = "null"]
  /\ finalUrl' = [finalUrl EXCEPT ![r] = NullUrl]
  /\ ret' = [ret EXCEPT ![r] = NoRet]
  /\ Emit(NoResp, sw)
  /\ active' = doneTurn(active)
  /\ UNCHANGED <<url, target, calls, respCount>>

\* the next loop iteration starts with its backoff sleep
Backoff(r, att, sw, E) ==
  /\ \E j \in E.jitters : timer' = [timer EXCEPT ![r] = baseDelay(att) + j]
  /\ attempt' = [attempt EXCEPT ![r] = att]
  /\ pc' = [pc EXCEPT ![r] = "sleep"]
  /\ status' = [status EXCEPT ![r] = "null"]
  /\ finalUrl' = [finalUrl EXCEPT ![r] = NullUrl]
  /\ ret' = [ret EXCEPT ![r] = NoRet]
  /\ Emit(NoResp, sw)
  /\ UNCHANGED <<active, url, target, calls, respCount>>

\* mutant: a thrown attempt is retried like a 429
AttemptThrows_m(r, e, sw, E) ==
  IF attempt[r] < maxAttempts
  THEN Backoff(r, attempt[r] + 1, sw, E)
  ELSE Handler500(r, e, sw, E)

\* resolveOnce threw: nothing in resolveWithRetries catches it
AttemptThrows(r, e, sw, E) == Handler500(r, e, sw, E)

\* resolveOnce returned: the rest of the loop body
AttemptReturns(r, result, sw, E) ==
  IF Resolved(result)
  THEN Handler200(r, ReturnInLoop(result, attempt[r], target[r]), sw, E)
  ELSE IF Retryable(result) /\ BudgetLeft(attempt[r])
       THEN Backoff(r, attempt[r] + 1, sw, E)
       ELSE Handler200(r, ReturnAfterLoop(result, target[r]), sw, E)

\* the slot is taken; resolveWithRetries starts attempt 1 without sleeping
Enter(r, u) ==
  /\ active' = active + 1
  /\ target' = [target EXCEPT ![r] = normalizeGoogleNewsUrl(u)]
  /\ attempt' = [attempt EXCEPT ![r] = 1]
  /\ calls' = [calls EXCEPT ![r] = 1]
  /\ timer' = [timer EXCEPT ![r] = 0]
  /\ pc' = [pc EXCEPT ![r] = "launch"]
  /\ UNCHANGED <<status, finalUrl, ret>>

waitForTurn(r, u) ==
  IF SlotBusy(active)
  THEN /\ pc' = [pc EXCEPT ![r] = "waitTurn"]
       /\ timer' = [timer EXCEPT ![r] = pollMs]
       /\ UNCHANGED <<active, target, attempt, calls, status, finalUrl, ret>>
  ELSE Enter(r, u)

\* ------------------------------------------------------------ actions
\* POST /resolve arrives
Receive(r, E) ==
  /\ pc[r] = "idle"
  /\ \E b \in E.bodies :
       IF InvalidBody(b)
       THEN /\ EmitArrival(b, Response(r, 400, Body400))
            /\ respCount' = [respCount EXCEPT ![r] = @ + 1]
            /\ pc' = [pc EXCEPT ![r] = "done"]
            /\ UNCHANGED <<active, url, target, attempt, calls, timer,
                           status, finalUrl, ret>>
       ELSE /\ url' = [url EXCEPT ![r] = b.val]
            /\ waitForTurn(r, b.val)
            /\ EmitArrival(b, NoResp)
            /\ UNCHANGED respCount
  /\ UNCHANGED <<browser, context, page>>
  /\ UNCHANGED doc

\* the 250 ms timer of waitForTurn fires
Poll(r) ==
  /\ pc[r] = "waitTurn"
  /\ waitForTurn(r, url[r])
  /\ Emit(NoResp, "")
  /\ UNCHANGED <<url, respCount, browser, context, page>>
  /\ UNCHANGED doc

\* the backoff timer fires; resolveOnce is called and launches the browser
WakeUp(r) ==
  /\ pc[r] = "sleep"
  /\ pc' = [pc EXCEPT ![r] = "launch"]
  /\ timer' = [timer EXCEPT ![r] = 0]
  /\ calls' = [calls EXCEPT ![r] = @ + 1]
  /\ Emit(NoResp, "")
  /\ UNCHANGED <<active, url, target, attempt, status, finalUrl, ret,
                 respCount, browser, context, page>>
  /\ UNCHANGED doc

\* ------------------------------------------------------------ resolveOnce
\* mutant: the includes test is dropped
FastPath_m(u) == Truthy(u)

FastPath(u) == Truthy(u) /\ ~Includes(u, <<"news.google.com">>)

\* mutant: the fast path reports the DOM method
FastPathResult_m(u, st) ==
  [ok |-> TRUE, resolved_url |-> u, method |-> "dom_link",
   http_status |-> st, final_url |-> u]

FastPathResult(u, st) ==
  [ok |-> TRUE, resolved_url |-> u, method |-> "final_url",
   http_status |-> st, final_url |-> u]

DomLinkResult(outbound, u, st) ==
  [ok |-> TRUE, resolved_url |-> outbound, method |-> "dom_link",
   http_status |-> st, final_url |-> u]

NoneResult(u, st) ==
  [ok |-> TRUE, resolved_url |-> NullUrl, method |-> "none",
   http_status |-> st, final_url |-> u]

\* the two returns after page.evaluate
EvaluateResult(dom, u, st) ==
  LET outbound == Outbound(dom)
  IN IF Truthy(outbound)
     THEN DomLinkResult(outbound, u, st)
     ELSE NoneResult(u, st)

Value(result) == [kind |-> "value", value |-> result]
Throw(e) == [kind |-> "throw", error |-> e]

\* a step of the try block completes it: the finally block calls page.close()
ToFinally(r, completion) ==
  /\ ret' = [ret EXCEPT ![r] = completion]
  /\ pc' = [pc EXCEPT ![r] = "closePage"]

\* chromium.launch settles
LaunchSettles(r, E) ==
  /\ pc[r] = "launch"
  /\ \/ /\ browser' = [browser EXCEPT ![r] = "open"]
        /\ context' = [context EXCEPT ![r] = "none"]
        /\ page' = [page EXCEPT ![r] = "none"]
        /\ pc' = [pc EXCEPT ![r] = "newContext"]
        /\ Emit(NoResp, "")
        /\ UNCHANGED <<active, url, target, attempt, calls, timer, status,
                       finalUrl, ret, respCount>>
     \/ /\ \E e \in E.errors : AttemptThrows(r, e, "", E)
        /\ UNCHANGED <<browser, context, page>>
  /\ UNCHANGED doc

\* browser.newContext settles; it runs before the try block
NewContextSettles(r, E) ==
  /\ pc[r] = "newContext"
  /\ \/ /\ context' = [context EXCEPT ![r] = "open"]
        /\ pc' = [pc EXCEPT ![r] = "route"]
        /\ Emit(NoResp, "")
        /\ UNCHANGED <<active, url, target, attempt, calls, timer, status,
                       finalUrl, ret, respCount, browser, page>>
     \/ /\ \E e \in E.errors : AttemptThrows(r, e, "", E)
        /\ UNCHANGED <<browser, context, page>>
  /\ UNCHANGED doc

\* context.route settles; it runs before the try block
RouteSettles(r, E) ==
  /\ pc[r] = "route"
  /\ \/ /\ pc' = [pc EXCEPT ![r] = "newPage"]
        /\ Emit(NoResp, "")
        /\ UNCHANGED <<active, url, target, attempt, calls, timer, status,
                       finalUrl, ret, respCount>>
     \/ \E e \in E.errors : AttemptThrows(r, e, "", E)
  /\ UNCHANGED <<browser, context, page>>
  /\ UNCHANGED doc

\* context.newPage settles; it runs before the try block, page.goto follows
NewPageSettles(r, E) ==
  /\ pc[r] = "newPage"
  /\ \/ /\ page' = [page EXCEPT ![r] = "open"]
        /\ pc' = [pc EXCEPT ![r] = "goto"]
        /\ Emit(NoResp, "")
        /\ UNCHANGED <<active, url, target, attempt, calls, timer, status,
                       finalUrl, ret, respCount>>
     \/ /\ \E e \in E.errors : AttemptThrows(r, e, "", E)
        /\ UNCHANGED page
  /\ UNCHANGED <<browser, context>>
  /\ UNCHANGED doc

\* page.goto settles: status = resp ? resp.status() : null
GotoSettles(r, E) ==
  /\ pc[r] = "goto"
  /\ \/ /\ \E st \in E.statuses : status' = [status EXCEPT ![r] = st]
        /\ pc' = [pc EXCEPT ![r] = "waitForTimeout"]
        /\ UNCHANGED ret
     \/ /\ \E e \in E.errors : ToFinally(r, Throw(e))
        /\ UNCHANGED status
  /\ Emit(NoResp, "")
  /\ UNCHANGED <<active, url, target, attempt, calls, timer, finalUrl,
                 respCount, browser, context, page>>
  /\ UNCHANGED doc

\* page.waitForTimeout(1500) settles
WaitForTimeoutSettles(r, E) ==
  /\ pc[r] = "waitForTimeout"
  /\ \/ /\ pc' = [pc EXCEPT ![r] = "waitForLoadState"]
        /\ UNCHANGED ret
     \/ \E e \in E.errors : ToFinally(r, Throw(e))
  /\ Emit(NoResp, "")
  /\ UNCHANGED <<active, url, target, attempt, calls, timer, status, finalUrl,
                 respCount, browser, context, page>>
  /\ UNCHANGED doc

\* page.waitForLoadState settles, a rejection is swallowed; finalUrl = page.url()
WaitForLoadStateSettles(r, E) ==
  /\ pc[r] = "waitForLoadState"
  /\ \E sw \in {"", "waitForLoadState"} : Emit(NoResp, sw)
  /\ \E u \in E.pageUrls :
       /\ finalUrl' = [finalUrl EXCEPT ![r] = u]
       /\ IF FastPath(u)
          THEN /\ ToFinally(r, Value(FastPathResult(u, status[r])))
               /\ UNCHANGED doc
          ELSE /\ pc' = [pc EXCEPT ![r] = "evaluate"]
               /\ \E dom \in E.doms : doc' = [doc EXCEPT ![r] = dom]
               /\ UNCHANGED ret
  /\ UNCHANGED <<active, url, target, attempt, calls, timer, status,
                 respCount, browser, context, page>>

\* page.evaluate settles
EvaluateSettles(r, E) ==
  /\ pc[r] = "evaluate"
  /\ \/ ToFinally(r, Value(EvaluateResult(doc[r], finalUrl[r], status[r])))
     \/ \E e \in E.errors : ToFinally(r, Throw(e))
  /\ Emit(NoResp, "")
  /\ UNCHANGED <<active, url, target, attempt, calls, timer, status, finalUrl,
                 respCount, browser, context, page>>
  /\ UNCHANGED doc

\* mutant: the rejection of a close replaces the completion of the try block
AfterClose_m(completion, failed, what) ==
  IF failed THEN [kind |-> "throw", error |-> what] ELSE completion

\* .catch(() => {}) on a close: the completion of the try block stands
AfterClose(completion, failed, what) == completion

\* a name for the swallowed rejection of a close, "" when it resolved
Swallow(failed, what) == IF failed THEN what ELSE ""

\* page.close() settles, .catch(() => {}) swallows a rejection
ClosePageSettles(r) ==
  /\ pc[r] = "closePage"
  /\ page' = [page EXCEPT ![r] = "closed"]
  /\ doc' = [doc EXCEPT ![r] = <<>>]
  /\ pc' = [pc EXCEPT ![r] = "closeContext"]
  /\ \E failed \in BOOLEAN :
       /\ Emit(NoResp, Swallow(failed, "page.close"))
       /\ ret' = [ret EXCEPT ![r] = AfterClose(@, failed, "page.close")]
  /\ UNCHANGED <<active, url, target, attempt, calls, timer, status, finalUrl,
                 respCount, browser, context>>

\* context.close() settles, .catch(() => {}) swallows a rejection
CloseContextSettles(r) ==
  /\ pc[r] = "closeContext"
  /\ context' = [context EXCEPT ![r] = "closed"]
  /\ pc' = [pc EXCEPT ![r] = "closeBrowser"]
  /\ \E failed \in BOOLEAN :
       /\ Emit(NoResp, Swallow(failed, "context.close"))
       /\ ret' = [ret EXCEPT ![r] = AfterClose(@, failed, "context.close")]
  /\ UNCHANGED <<active, url, target, attempt, calls, timer, status, finalUrl,
                 respCount, browser, page>>
  /\ UNCHANGED doc

\* browser.close() settles; resolveOnce returns or rethrows to resolveWithRetries
CloseBrowserSettles(r, E) ==
  /\ pc[r] = "closeBrowser"
  /\ browser' = [browser EXCEPT ![r] = "closed"]
  /\ \E failed \in BOOLEAN :
       LET completion == AfterClose(ret[r], failed, "browser.close")
       IN IF completion.kind = "throw"
          THEN AttemptThrows(r, completion.error, Swallow(failed, "browser.close"), E)
          ELSE AttemptReturns(r, completion.value, Swallow(failed, "browser.close"), E)
  /\ UNCHANGED <<context, page>>
  /\ UNCHANGED doc

Step(r, E) ==
  \/ Receive(r, E)
  \/ Poll(r)
  \/ WakeUp(r)
  \/ LaunchSettles(r, E)
  \/ NewContextSettles(r, E)
  \/ RouteSettles(r, E)
  \/ NewPageSettles(r, E)
  \/ GotoSettles(r, E)
  \/ WaitForTimeoutSettles(r, E)
  \/ WaitForLoadStateSettles(r, E)
  \/ EvaluateSettles(r, E)
  \/ ClosePageSettles(r)
  \/ CloseContextSettles(r)
  \/ CloseBrowserSettles(r, E)

Next == \E r \in Reqs : Step(r, Env)

Spec == Init /\ [][Next]_vars

\* the same program over the smaller sample of outcomes
LeanNext == \E r \in Reqs : Step(r, LeanEnv)

\* every request arrives and every pending timer and browser operation settles
Fairness == \A r \in Reqs : WF_vars(Step(r, LeanEnv))

LiveSpec == Init /\ [][LeanNext]_vars /\ Fairness

\* the same program when res.json may throw
SendNext == \E r \in Reqs : Step(r, SendEnv)

SendSpec == Init /\ [][SendNext]_vars

\* ------------------------------------------- the normalizer on its own
\* longest input of the normalizer, in tokens
MaxLen == 4

\* pieces of which the inputs of the normalizer are made
NormTokens ==
  {"https://", "http://", "news.google.com", "/rss", "/articles/", "ABC?oc=5"}

SeqsUpTo(S, n) == UNION {[1..k -> S] : k \in 0..n}

NormInputs == SeqsUpTo(NormTokens, MaxLen)

\* resolveWithRetries is about to be called with some string
NormInit ==
  /\ active = 0
  /\ pc = [r \in Reqs |-> IF r = 1 THEN "normalize" ELSE "idle"]
  /\ \E x \in NormInputs : url = [r \in Reqs |-> IF r = 1 THEN x ELSE NullUrl]
  /\ target = [r \in Reqs |-> NullUrl]
  /\ attempt = [r \in Reqs |-> 0]
  /\ calls = [r \in Reqs |-> 0]
  /\ timer = [r \in Reqs |-> 0]
  /\ status = [r \in Reqs |-> "null"]
  /\ finalUrl = [r \in Reqs |-> NullUrl]
  /\ ret = [r \in Reqs |-> NoRet]
  /\ browser = [r \in Reqs |-> "none"]
  /\ context = [r \in Reqs |-> "none"]
  /\ page = [r \in Reqs |-> "none"]
  /\ doc = [r \in Reqs |-> <<>>]
  /\ respCount = [r \in Reqs |-> 0]
  /\ ev = [input |-> NoInput, resp |-> NoResp, swallowed |-> "",
           calls |-> 0, last |-> NoRet]

\* const targetUrl = normalizeGoogleNewsUrl(googleNewsUrl)
Normalize(r) ==
  /\ pc[r] = "normalize"
  /\ target' = [target EXCEPT ![r] = normalizeGoogleNewsUrl(url[r])]
  /\ pc' = [pc EXCEPT ![r] = "normalized"]
  /\ UNCHANGED <<active, url, attempt, calls, timer, status, finalUrl, ret,
                 browser, context, page, doc, respCount, ev>>

NormNext == \E r \in Reqs : Normalize(r)

NormSpec == NormInit /\ [][NormNext]_vars

\* ------------------------------------------ the DOM fallback on its own
\* longest document, in anchors
MaxAnchors == 3

JsUrl == <<"javascript:", "void(0)">>

\* anchors of which the documents are made
AnchorSamples ==
  { Anchor(ArticleUrl, "nofollow", "", FALSE, FALSE),
    Anchor(PublisherUrl, "nofollow", "", FALSE, FALSE),
    Anchor(AccountsUrl, "", "_blank", FALSE, FALSE),
    Anchor(PublisherUrl, "", "", TRUE, FALSE),
    Anchor(AdUrl, "", "", FALSE, TRUE),
    Anchor(AdUrl, "", "", FALSE, FALSE),
    Anchor(JsUrl, "nofollow", "", FALSE, FALSE),
    Anchor(EmptyStr, "", "_blank", FALSE, FALSE) }

DomInputs == SeqsUpTo(AnchorSamples, MaxAnchors)

\* the selectors of the simpler implementation that are tried by querySelector
ungatedSelectors == 1..4

UngatedMatches(sel, a) ==
  CASE sel = 1 -> a.rel = "nofollow"
    [] sel = 2 -> a.target = "_blank"
    [] sel = 3 -> a.inArticle /\ HrefHttp(a)
    [] OTHER -> a.inMain /\ HrefHttp(a)

\* a && a.href for a = document.querySelector(sel); a falsy value is NullUrl
QuerySelectorHref(dom, sel) ==
  LET ms == SelectSeq(dom, LAMBDA a : UngatedMatches(sel, a))
  IN IF Len(ms) > 0 /\ Truthy(ms[1].href) THEN ms[1].href ELSE NullUrl

\* all a[href^='http'], mapped to href, filtered
UngatedLinks(dom) ==
  SelectSeq(dom, LAMBDA a : /\ HrefHttp(a)
                            /\ Truthy(a.href)
                            /\ ~Includes(a.href, <<"news.google.com">>)
                            /\ ~Includes(a.href, <<"accounts.google.com">>))

\* the function passed to page.evaluate in the simpler implementation
UngatedOutbound(dom) ==
  IF \E sel \in ungatedSelectors : Truthy(QuerySelectorHref(dom, sel))
  THEN LET sel == CHOOSE t \in ungatedSelectors :
                    /\ Truthy(QuerySelectorHref(dom, t))
                    /\ \A u \in ungatedSelectors :
                         u < t => ~Truthy(QuerySelectorHref(dom, u))
       IN QuerySelectorHref(dom, sel)
  ELSE IF Len(UngatedLinks(dom)) > 0 THEN UngatedLinks(dom)[1].href
       ELSE NullUrl

\* the two returns after page.evaluate in the simpler implementation
UngatedEvaluateResult(dom, st) ==
  LET outbound == UngatedOutbound(dom)
  IN IF Truthy(outbound)
     THEN [resolved_url |-> outbound, method |-> "dom_link", http_status |-> st]
     ELSE [resolved_url |-> NullUrl, method |-> "none", http_status |-> st]

\* page.evaluate of the simpler implementation settles; its finally block
\* calls context.close()
UngatedEvaluateSettles(r, E) ==
  /\ pc[r] = "ungated.evaluate"
  /\ \/ ret' = [ret EXCEPT ![r] = Value(UngatedEvaluateResult(doc[r], status[r]))]
     \/ \E e \in E.errors : ret' = [ret EXCEPT ![r] = Throw(e)]
  /\ pc' = [pc EXCEPT ![r] = "ungated.closeContext"]
  /\ Emit(NoResp, "")
  /\ UNCHANGED <<active, url, target, attempt, calls, timer, status, finalUrl,
                 respCount, browser, context, page, doc>>

\* one attempt of either implementation stayed on the aggregator and is about
\* to scan some document
DomInit ==
  /\ \E mode \in {"evaluate", "ungated.evaluate"} :
       /\ pc = [r \in Reqs |-> IF r = 1 THEN mode ELSE "idle"]
       /\ active = IF mode = "evaluate" THEN 1 ELSE 0
       /\ attempt = [r \in Reqs |-> IF r = 1 /\ mode = "evaluate" THEN 1 ELSE 0]
       /\ calls = [r \in Reqs |-> IF r = 1 /\ mode = "evaluate" THEN 1 ELSE 0]
  /\ \E dom \in DomInputs : doc = [r \in Reqs |-> IF r = 1 THEN dom ELSE <<>>]
  /\ url = [r \in Reqs |-> IF r = 1 THEN RssUrl ELSE NullUrl]
  /\ target = [r \in Reqs |-> IF r = 1 THEN normalizeGoogleNewsUrl(RssUrl) ELSE NullUrl]
  /\ timer = [r \in Reqs |-> 0]
  /\ status = [r \in Reqs |-> IF r = 1 THEN "200" ELSE "null"]
  /\ finalUrl = [r \in Reqs |-> IF r = 1 THEN ArticleUrl ELSE NullUrl]
  /\ ret = [r \in Reqs |-> NoRet]
  /\ browser = [r \in Reqs |-> IF r = 1 THEN "open" ELSE "none"]
  /\ context = [r \in Reqs |-> IF r = 1 THEN "open" ELSE "none"]
  /\ page = [r \in Reqs |-> IF r = 1 THEN "open" ELSE "none"]
  /\ respCount = [r \in Reqs |-> 0]
  /\ ev = [input |-> NoInput, resp |-> NoResp, swallowed |-> "",
           calls |-> 0, last |-> NoRet]

DomNext ==
  \E r \in Reqs :
    \/ EvaluateSettles(r, LeanEnv)
    \/ UngatedEvaluateSettles(r, LeanEnv)

DomSpec == DomInit /\ [][DomNext]_vars

\* ------------------------------------------------------------- properties
\* a request that returned from waitForTurn and has not called doneTurn
Holding(r) == pc[r] \notin {"idle", "waitTurn", "done"}

IsAnswer(st) == ev.resp.type = "response" /\ ev.resp.status = st

\* the AttemptResult fields of a response body are those of result
CarriesResult(body, result) ==
  /\ body.resolved_url = result.resolved_url
  /\ body.method = result.method
  /\ body.http_status = result.http_status
  /\ body.final_url = result.final_url

\* C1: at most one request is between its successful waitForTurn and its
\* doneTurn at any time, over every interleaving of timers and browser callbacks.
C1_OneHolder == Cardinality({r \in Reqs : Holding(r)}) <= 1

\* a request polls while another one is inside resolveOnce
C1_witness ==
  \E r, q \in Reqs : r # q /\ pc[r] = "waitTurn" /\ pc[q] = "goto"

\* C2: when the last attempt returns no resolved URL with a non-retryable
\* status after k-1 attempts that returned 429 or 503, the answer carries that
\* attempt's result with attempt = k, the number of attempts performed.
C2_AttemptIsCount ==
  (/\ IsAnswer(200)
   /\ ev.last.kind = "value"
   /\ ev.last.value.resolved_url = NullUrl
   /\ ev.last.value.http_status \notin {"429", "503"})
  => /\ ev.resp.body.attempt = ev.calls
     /\ CarriesResult(ev.resp.body, ev.last.value)

\* C3: one request never makes more than 4 resolveOnce calls, and when the
\* 4th attempt also returns no resolved URL with 429 or 503, the answer is
\* that 4th result with attempt = 4.
C3_AtMostFourAttempts ==
  /\ \A r \in Reqs : calls[r] <= 4
  /\ ev.calls <= 4
  /\ (/\ IsAnswer(200)
      /\ ev.last.value.resolved_url = NullUrl
      /\ ev.last.value.http_status \in {"429", "503"})
     => /\ ev.calls = 4
        /\ ev.resp.body.attempt = 4
        /\ CarriesResult(ev.resp.body, ev.last.value)

\* the answer after four rate-limited attempts
C3_witness ==
  /\ IsAnswer(200)
  /\ ev.calls = 4
  /\ ev.resp.body.http_status = "429"
  /\ ev.resp.body.resolved_url = NullUrl
  /\ ev.resp.body.attempt = 4

\* C4: as soon as attempt k returns a non-null resolved_url the controller
\* stops: no further attempt or sleep, and the outcome is attempt k's result
\* with attempt = k and target_url the normalized input, whatever the status.
C4_StopOnResolved ==
  [][\A r \in Reqs :
       (/\ pc[r] = "closeBrowser"
        /\ ret[r].kind = "value"
        /\ ret[r].value.resolved_url # NullUrl)
       => \/ pc'[r] = "closeBrowser"
          \/ /\ pc'[r] = "done"
             /\ calls'[r] = 0 /\ timer'[r] = 0
             /\ ev'.resp.type = "response"
             /\ ev'.resp.req = r
             /\ ev'.resp.status = 200
             /\ ev'.resp.body.attempt = calls[r]
             /\ ev'.resp.body.target_url = normalizeGoogleNewsUrl(url[r])
             /\ CarriesResult(ev'.resp.body, ret[r].value)]_vars

\* the second attempt of an RSS link resolved although the status was 429
C4_witness ==
  /\ IsAnswer(200)
  /\ ev.calls = 2
  /\ ev.resp.body.attempt = 2
  /\ ev.resp.body.http_status = "429"
  /\ ev.resp.body.resolved_url = PublisherUrl
  /\ ev.resp.body.google_news_url = RssUrl
  /\ ev.resp.body.target_url = ArticleUrl

\* C5: every browser resource acquired during an attempt has been closed by
\* the time the attempt returns or throws, on every exit path.
C5_SessionReleased ==
  \A r \in Reqs :
    pc[r] \in {"done", "sleep"}
    => browser[r] # "open" /\ context[r] # "open" /\ page[r] # "open"

\* C6: a thrown error in any attempt is never retried: a backoff sleep only
\* follows an attempt that returned, a pending error reaches the handler
\* unchanged, and the request is answered 500 with ok: false and no result.
C6_ThrowIsFatal ==
  [][\A r \in Reqs :
       /\ (pc'[r] = "sleep" /\ pc[r] # "sleep")
          => (pc[r] = "closeBrowser" /\ ret[r].kind = "value")
       /\ (ret[r].kind = "throw" /\ pc'[r] # "done") => ret'[r] = ret[r]
       /\ (Holding(r) /\ pc'[r] = "done" /\ ret[r].kind # "value")
          => /\ ev'.resp.type = "response"
             /\ ev'.resp.req = r
             /\ ev'.resp.status = 500
             /\ ev'.resp.body.ok = FALSE
             /\ "resolved_url" \notin DOMAIN ev'.resp.body
             /\ ret[r].kind = "throw" => ev'.resp.body.error = ret[r].error]_vars

\* the second attempt, reached after a 429 or 503 result, threw
C6_witness ==
  /\ IsAnswer(500)
  /\ ev.calls = 2
  /\ ev.last.kind = "throw"
  /\ ev.resp.body.ok = FALSE

\* C7: a request whose google_news_url is missing, empty or not a string is
\* answered 400 and leaves the gate counter and every browser session as they
\* were, also while another request holds the gate.
C7_InvalidTouchesNothing ==
  [][(/\ ev'.input.type # "none"
      /\ (ev'.input.type # "string" \/ ev'.input.val = EmptyStr))
     => /\ ev'.resp.type = "response"
        /\ ev'.resp.status = 400
        /\ ev'.resp.body.ok = FALSE
        /\ active' = active
        /\ calls' = calls
        /\ browser' = browser /\ context' = context /\ page' = page]_vars

\* a non-string body is rejected while another request has a browser open
C7_witness ==
  /\ IsAnswer(400)
  /\ ev.input.type = "number"
  /\ active = 1
  /\ \E q \in Reqs : Holding(q) /\ browser[q] = "open"

\* C8: in every 200 response blocked is true exactly when the http_status of
\* the last attempt is 429; the spread result never overwrites it.
C8_BlockedIff429 ==
  IsAnswer(200)
  => /\ ev.resp.body.blocked \in BOOLEAN
     /\ ev.resp.body.blocked <=> (ev.last.value.http_status = "429")

\* 503 exhaustion is answered with blocked: false
C8_witness ==
  /\ IsAnswer(200)
  /\ ev.calls = 4
  /\ ev.last.value.http_status = "503"
  /\ ev.resp.body.blocked = FALSE

\* the last attempt left the aggregator: page.url() is non-empty without news.google.com
FastPathCase(result) ==
  /\ result.final_url # NullUrl
  /\ result.final_url # EmptyStr
  /\ \A i \in 1..Len(result.final_url) : result.final_url[i] # "news.google.com"

\* C9 as stated: a fast-path resolution is answered with method final_url
\* and blocked: false, for every HTTP status of that attempt.
C9_FastPathNeverBlocked ==
  (IsAnswer(200) /\ FastPathCase(ev.last.value))
  => /\ ev.resp.body.method = "final_url"
     /\ ev.resp.body.blocked = FALSE

\* C9 amended: a fast-path resolution is answered with method final_url, and
\* blocked is false for every HTTP status of that attempt other than 429.
C9_FastPathBlockedOnlyOn429 ==
  (IsAnswer(200) /\ FastPathCase(ev.last.value))
  => /\ ev.resp.body.method = "final_url"
     /\ ev.resp.body.resolved_url = ev.last.value.final_url
     /\ ev.last.value.http_status # "429" => ev.resp.body.blocked = FALSE
     /\ ev.last.value.http_status = "429" => ev.resp.body.blocked = TRUE

\* a fast-path answer whose navigation saw 503
C9_witness ==
  /\ IsAnswer(200)
  /\ FastPathCase(ev.last.value)
  /\ ev.resp.body.method = "final_url"
  /\ ev.resp.body.http_status = "503"
  /\ ev.resp.body.blocked = FALSE

\* C10: when every timer and browser operation settles, every request gets
\* exactly one response, with status 400, 200 or 500, and every request
\* waiting in waitForTurn eventually acquires the slot.
C10_EveryRequestAnswered ==
  /\ [](\A r \in Reqs : respCount[r] <= 1 /\ (pc[r] = "done" <=> respCount[r] = 1))
  /\ [](ev.resp.type = "response" => ev.resp.status \in {200, 400, 500})
  /\ \A r \in Reqs : (pc[r] = "waitTurn") ~> Holding(r)
  /\ \A r \in Reqs : <>(pc[r] = "done" /\ respCount[r] = 1)

\* all requests are answered and the slot is free again
C10_witness ==
  /\ \A r \in Reqs : pc[r] = "done" /\ respCount[r] = 1
  /\ active = 0
  /\ IsAnswer(200)

\* the request's handler ran in this step
Moved(r) == pc'[r] # pc[r]

\* C11: normalizeGoogleNewsUrl is idempotent: normalizing its output again
\* gives the same string, for every input string.
C11_NormalizeIdempotent ==
  \A r \in Reqs :
    pc[r] = "normalized" => normalizeGoogleNewsUrl(target[r]) = target[r]

\* C12: a rejection of page.close, context.close or browser.close is
\* swallowed: the next teardown step follows, the completion of the try block
\* (result or original error) is what resolveWithRetries receives, and the
\* release failure never shows in the response.
C12_TeardownFailureSwallowed ==
  [][\A r \in Reqs :
       /\ (pc[r] = "closePage" /\ Moved(r))
          => (pc'[r] = "closeContext" /\ ret'[r] = ret[r])
       /\ (pc[r] = "closeContext" /\ Moved(r))
          => (pc'[r] = "closeBrowser" /\ ret'[r] = ret[r])
       /\ (pc[r] = "closeBrowser" /\ Moved(r) /\ ret[r].kind = "throw")
          => /\ pc'[r] = "done"
             /\ ev'.resp.type = "response"
             /\ ev'.resp.status = 500
             /\ ev'.resp.body.error = ret[r].error
       /\ (pc[r] = "closeBrowser" /\ Moved(r) /\ ret[r].kind = "value")
          => \/ pc'[r] = "sleep"
             \/ /\ pc'[r] = "done"
                /\ ev'.resp.type = "response"
                /\ ev'.resp.status = 200
                /\ CarriesResult(ev'.resp.body, ret[r].value)]_vars

\* browser.close rejected and the computed result is answered all the same
C12_witness ==
  /\ IsAnswer(200)
  /\ ev.swallowed = "browser.close"
  /\ ev.last.kind = "value"
  /\ ev.resp.body.method = "dom_link"

\* C13: attempt k+1 is started exactly when attempt k returned without
\* throwing, with no resolved URL, with status 429 or 503, and k < 4; a
\* no-link result with any other status ends the resolution.
C13_RetryIff429Or503 ==
  [][\A r \in Reqs :
       /\ (pc[r] = "closeBrowser" /\ Moved(r))
          => (pc'[r] = "sleep"
              <=> (/\ ret[r].kind = "value"
                   /\ ret[r].value.resolved_url = NullUrl
                   /\ ret[r].value.http_status \in {"429", "503"}
                   /\ calls[r] < 4))
       /\ (pc'[r] = "sleep" /\ Moved(r)) => pc[r] = "closeBrowser"
       /\ (calls[r] >= 1 /\ calls'[r] > calls[r])
          => (pc[r] = "sleep" /\ calls'[r] = calls[r] + 1)
       /\ (pc[r] = "sleep" /\ Moved(r))
          => (pc'[r] = "launch" /\ calls'[r] = calls[r] + 1)]_vars

\* a first attempt without a link and with status 403 ends the resolution
C13_witness ==
  /\ IsAnswer(200)
  /\ ev.calls = 1
  /\ ev.resp.body.http_status = "403"
  /\ ev.resp.body.resolved_url = NullUrl

\* the smallest sleep before attempt n
SleepFloor(n) == CASE n = 2 -> 1600 [] n = 3 -> 3200 [] n = 4 -> 6400 [] OTHER -> -1

\* C14: no sleep precedes attempt 1; before each attempt n in 2..4 exactly one
\* sleep occurs, of 1600..1999, 3200..3599 and 6400..6799 ms, and it precedes
\* the browser launch of that attempt.
C14_BackoffDurations ==
  /\ [](\A r \in Reqs :
          pc[r] = "sleep"
          => /\ attempt[r] \in 2..4
             /\ calls[r] = attempt[r] - 1
             /\ timer[r] >= SleepFloor(attempt[r])
             /\ timer[r] < SleepFloor(attempt[r]) + 400
             /\ browser[r] # "open")
  /\ [][\A r \in Reqs :
          /\ (pc'[r] = "launch" /\ Moved(r))
             => \/ pc[r] \in {"idle", "waitTurn"} /\ calls'[r] = 1
                \/ /\ pc[r] = "sleep"
                   /\ calls'[r] = attempt[r]
                   /\ browser'[r] # "open"
          /\ (pc[r] = "sleep" /\ Moved(r)) => pc'[r] = "launch"]_vars

\* the longest sleep: before attempt 4 with the largest jitter
C14_witness ==
  \E r \in Reqs : pc[r] = "sleep" /\ attempt[r] = 4 /\ timer[r] = 6799

\* the settled page is off the aggregator
OffAggregator(u) ==
  /\ u # EmptyStr
  /\ u # NullUrl
  /\ \A i \in 1..Len(u) : u[i] # "news.google.com"

\* C15: when the page URL after settling does not contain news.google.com the
\* attempt returns it as resolved_url and final_url with method final_url and
\* page.evaluate is not run; the DOM scan runs only when the URL still
\* contains news.google.com or is empty.
C15_FastPathSkipsDom ==
  [][\A r \in Reqs :
       /\ (pc[r] = "waitForLoadState" /\ Moved(r))
          => IF OffAggregator(finalUrl'[r])
             THEN /\ pc'[r] = "closePage"
                  /\ ret'[r].kind = "value"
                  /\ ret'[r].value.method = "final_url"
                  /\ ret'[r].value.resolved_url = finalUrl'[r]
                  /\ ret'[r].value.final_url = finalUrl'[r]
             ELSE pc'[r] = "evaluate"
       /\ (pc'[r] = "evaluate" /\ Moved(r)) => pc[r] = "waitForLoadState"
       /\ (pc[r] = "evaluate" /\ Moved(r) /\ ret'[r].kind = "value")
          => ret'[r].value.method \in {"dom_link", "none"}]_vars

\* a fast-path result waits for the teardown and no document was scanned
C15_witness ==
  \E r \in Reqs :
    /\ pc[r] = "closePage"
    /\ ret[r].kind = "value"
    /\ ret[r].value.method = "final_url"
    /\ ret[r].value.resolved_url = PublisherUrl
    /\ doc[r] = <<>>

\* an href the extractor must not return
Rejected(h) ==
  \/ h = EmptyStr
  \/ h = NullUrl
  \/ \E i \in 1..Len(h) : h[i] \in {"news.google.com", "accounts.google.com"}
  \/ h[1] = "javascript:"

\* anchor a is selected by the selector of priority k (1 is the highest)
Selected(k, a) ==
  /\ a.href # EmptyStr
  /\ a.href[1] \in {"https://", "http://"}
  /\ k = 1 => a.rel = "nofollow"
  /\ k = 2 => a.target = "_blank"
  /\ k = 3 => a.inArticle
  /\ k = 4 => a.inMain

\* anchor i of dom is a match of priority k that is not rejected
Accepted(dom, k, i) == Selected(k, dom[i]) /\ ~Rejected(dom[i].href)

\* the attempt of request r scanned doc[r] and returned
Scanned(r) ==
  /\ pc[r] = "closePage"
  /\ ret[r].kind = "value"
  /\ ret[r].value.method \in {"dom_link", "none"}

\* C16: the DOM fallback of the gated implementation returns the first
\* non-rejected match, in document order, of the highest-priority selector
\* that has a non-rejected match; the href never contains news.google.com or
\* accounts.google.com; with no accepted candidate it returns resolved_url
\* null with method none.
C16_FirstAcceptedOfBestSelector ==
  \A r \in Reqs :
    Scanned(r)
    => LET dom == doc[r]
           res == ret[r].value
       IN IF \E k \in 1..5, i \in 1..Len(dom) : Accepted(dom, k, i)
          THEN /\ res.method = "dom_link"
               /\ ~Rejected(res.resolved_url)
               /\ \E k \in 1..5, i \in 1..Len(dom) :
                    /\ Accepted(dom, k, i)
                    /\ \A t \in 1..(k - 1), j \in 1..Len(dom) : ~Accepted(dom, t, j)
                    /\ \A j \in 1..(i - 1) : ~Accepted(dom, k, j)
                    /\ res.resolved_url = dom[i].href
          ELSE res.method = "none" /\ res.resolved_url = NullUrl

\* a publisher nofollow anchor wins although a lower-priority anchor and a
\* rejected nofollow anchor precede it
C16_witness ==
  \E r \in Reqs :
    /\ Scanned(r)
    /\ doc[r] = << Anchor(AdUrl, "", "", FALSE, TRUE),
                   Anchor(ArticleUrl, "nofollow", "", FALSE, FALSE),
                   Anchor(PublisherUrl, "nofollow", "", FALSE, FALSE) >>
    /\ ret[r].value.method = "dom_link"
    /\ ret[r].value.resolved_url = PublisherUrl

\* C17: active is 0 or 1 and counts the requests between waitForTurn and
\* doneTurn; only a holder releases, once, and never with active at 0, so the
\* floor of doneTurn is not the operative branch.
C17_ActiveCountsHolders ==
  /\ [](active \in {0, 1} /\ active = Cardinality({r \in Reqs : Holding(r)}))
  /\ [][/\ \A r \in Reqs :
             (Holding(r) /\ pc'[r] = "done") => (active >= 1 /\ active' = active - 1)
        /\ active' < active => \E r \in Reqs : Holding(r) /\ pc'[r] = "done"
        /\ active' > active
           => \E r \in Reqs : ~Holding(r) /\ pc'[r] = "launch" /\ active' = active + 1]_vars

\* a request that threw has released and the next one holds the slot
C17_witness ==
  /\ active = 1
  /\ \E r, q \in Reqs : pc[r] = "done" /\ browser[r] = "open" /\ Holding(q)

\* C18: a request holds the gate across all its attempts and sleeps and
\* releases it however the resolution ends: a 200 response, a thrown error
\* answered 500, an error thrown while sending; with all requests over,
\* active is 0.
C18_HeldUntilTheEnd ==
  /\ []((\A r \in Reqs : pc[r] = "done") => active = 0)
  /\ [](\A r \in Reqs : Holding(r) => active = 1)
  /\ [][\A r \in Reqs :
          Holding(r)
          => \/ pc'[r] # "done" /\ Holding(r)' /\ active' = active
             \/ pc'[r] = "done" /\ active' = 0]_vars

\* res.json threw in the try block and in the catch block; the slot is free
C18_witness ==
  /\ ev.swallowed = "res.json"
  /\ ev.resp.type = "none"
  /\ ev.last.kind = "value"
  /\ active = 0
  /\ \A r \in Reqs : pc[r] \in {"idle", "done"}

\* C19: at most one browser session is live at any time.
C19_OneLiveSession ==
  Cardinality({r \in Reqs : browser[r] = "open"}) <= 1

\* C20: in the simpler implementation a result with method dom_link never
\* carries an href on news.google.com or accounts.google.com.
C20_UngatedNeverReturnsAggregator ==
  \A r \in Reqs :
    (/\ pc[r] = "ungated.closeContext"
     /\ ret[r].kind = "value"
     /\ ret[r].value.method = "dom_link")
    => \A i \in 1..Len(ret[r].value.resolved_url) :
         ret[r].value.resolved_url[i] \notin {"news.google.com", "accounts.google.com"}

====
